---- MODULE Spec2Model ----
(***************************************************************************)
(* RepoVitals: repo_heath_checker.py.                                      *)
(*                                                                         *)
(* RepoHealthChecker fetches repository info, one page of issues and one   *)
(* page of commits from the hosting API, summarises them, renders a table  *)
(* and main() saves the summary to repo_health_report.json.                *)
(*                                                                         *)
(* Encoding of Python values:                                              *)
(*   - a dict is a TLA+ function from key strings to values; {} is the     *)
(*     function with the empty domain;                                     *)
(*   - a wire timestamp 'YYYY-MM-DDTHH:MM:SSZ' is <<d, s>>: d the calendar *)
(*     day counted from 2024-01-01 (day 0), s the second of that day;      *)
(*     JSON null is <<>>;                                                  *)
(*   - a datetime is a number of seconds since 2024-01-01T00:00:00, a      *)
(*     date a number of days since 2024-01-01, a timedelta a number of     *)
(*     seconds (of days, for a difference of dates);                       *)
(*   - an int is an integer; a float (and an int standing where the code   *)
(*     otherwise puts a float) is a fraction <<n, d>> in lowest terms,     *)
(*     d > 0, so that 0 and 0.0 are one value, as they are in Python;      *)
(*   - a text is a tuple of the pieces written;                            *)
(*   - a call's outcome is [exc |-> "none", value |-> v] when it returns v *)
(*     and [exc |-> e] when it raises e.                                   *)
(***************************************************************************)
EXTENDS Integers, Sequences, FiniteSets, TLC

VARIABLES
    pc,            \* position of the running program
    exc,           \* the unhandled exception that ended the run, or "none"
    token,         \* os.getenv('GITHUB_TOKEN'): a string, "" when unset
    owner,         \* answer to the first prompt ("" before it is read)
    repo,          \* answer to the second prompt ("" before it is read)
    calls,         \* the outbound GETs issued so far, in order
    repo_data,     \* analyze_repository's local repo_data
    issues_data,   \* analyze_repository's local issues_data
    commits_data,  \* analyze_repository's local commits_data
    analysis,      \* main's local analysis (the HealthReport)
    stdout,        \* what has been printed, in order
    file,          \* repo_health_report.json: its content, or NoFile
    response       \* the collaborator response handed to an analyzer called on its own

vars == <<pc, exc, token, owner, repo, calls, repo_data, issues_data,
          commits_data, analysis, stdout, file, response>>

----------------------------------------------------------------------------
(* Bounds of the model.                                                    *)

\* issues per page and last calendar day, when _analyze_issues is called on its own
MaxIssues == 2
MaxIssueDay == 2
\* commits per page and last calendar day, when _analyze_commits is called on its own
MaxCommits == 3
MaxCommitDay == 7
\* records per page and last calendar day (day 0 is the first) of the pages served
\* during a run of main
MainMaxLen == 2
MainMaxDay == 0

----------------------------------------------------------------------------
(* Python values.                                                          *)

SecondsPerDay == 86400
StatusOK == 200
Statuses == {200, 404}
TimesOfDay == {0, 43200}

None == <<>>
EmptyDict == <<>>
\* a file of the working directory: whether it exists, and its text
FileOf(text) == [exists |-> TRUE, text |-> text]
NoFile == [exists |-> FALSE, text |-> <<>>]

Return(v) == [exc |-> "none", value |-> v]
Raise(e) == [exc |-> e]

Abs(n) == IF n < 0 THEN -n ELSE n

RECURSIVE GCD(_, _)
GCD(a, b) == IF b = 0 THEN a ELSE GCD(b, a % b)

\* n / d of two ints (true division), d > 0
TrueDiv(n, d) == LET g == GCD(Abs(n), d) IN <<n \div g, d \div g>>

\* an int where a float may stand
Num(n) == <<n, 1>>

\* datetime.datetime.strptime(s, '%Y-%m-%dT%H:%M:%SZ'); TypeError on None
strptime(s) == IF s = None THEN Raise("TypeError")
               ELSE Return(s[1] * SecondsPerDay + s[2])

\* datetime.date(): the time of day is dropped
date(dt) == dt \div SecondsPerDay

\* timedelta.days of a difference of datetimes: a timedelta is normalised to
\* days + (0 <= seconds < 86400), so days is the floor of the quotient
days(delta) == delta \div SecondsPerDay

\* sum(...) of a sequence of ints
RECURSIVE sum(_)
sum(s) == IF s = <<>> THEN 0 ELSE Head(s) + sum(Tail(s))

\* max(...) and min(...) of a non-empty sequence of dates
max(s) == CHOOSE x \in {s[i] : i \in DOMAIN s} : \A j \in DOMAIN s : s[j] <= x
min(s) == CHOOSE x \in {s[i] : i \in DOMAIN s} : \A j \in DOMAIN s : x <= s[j]

\* round(x, 2) of x = <<n, d>> >= 0, as a number: the nearest multiple of 0.01.
\* A tie (x exactly k.5 hundredths) needs 8 to divide d; for d = 8 the float is
\* exact and Python rounds the tie to the even neighbour.
round2(x) ==
    LET n == 100 * x[1]
        d == x[2]
        q == n \div d
        r == n - q * d
        k == IF 2 * r < d THEN q
             ELSE IF 2 * r > d THEN q + 1
             ELSE IF q % 2 = 0 THEN q ELSE q + 1
    IN  TrueDiv(k, 100)

----------------------------------------------------------------------------
(* The collaborator's responses.                                           *)

Timestamps(maxDay) == {<<d, s>> : d \in 0..maxDay, s \in TimesOfDay}

\* an issue record: an open one has closed_at null, a closed one a timestamp
\* or (malformed) null
IssueRecords(maxDay) ==
    {[state |-> "open", created_at |-> c, closed_at |-> None] :
        c \in Timestamps(maxDay)}
    \cup
    {[state |-> "closed", created_at |-> c, closed_at |-> e] :
        c \in Timestamps(maxDay), e \in Timestamps(maxDay) \cup {None}}

\* a commit record, reduced to commit.author.date
CommitRecords(maxDay) ==
    {[commit |-> [author |-> [date |-> t]]] : t \in Timestamps(maxDay)}

Pages(records, maxLen) == UNION {[1..n -> records] : n \in 0..maxLen}

----------------------------------------------------------------------------
(* RepoHealthChecker._analyze_issues                                       *)

\* line 61: closed_issues = [issue for issue in issues if issue['state'] == 'closed']
ClosedIssues(issues) == SelectSeq(issues, LAMBDA issue : issue.state = "closed")

\* a faulty variant of OpenIssues: the filter on the state is forgotten
OpenIssuesUnfiltered(issues) == issues

\* line 74: [i for i in issues if i['state'] == 'open']
OpenIssues(issues) == SelectSeq(issues, LAMBDA i : i.state = "open")

\* a faulty variant of TimeToClose: the dates are subtracted, not the datetimes
TimeToCloseOfDates(issue) ==
    date(strptime(issue.closed_at).value) - date(strptime(issue.created_at).value)

\* a faulty variant of TimeToClose: the operands are exchanged
TimeToCloseReversed(issue) ==
    days(strptime(issue.created_at).value - strptime(issue.closed_at).value)

\* lines 64-65: (strptime(issue['closed_at']) - strptime(issue['created_at'])).days
TimeToClose(issue) ==
    days(strptime(issue.closed_at).value - strptime(issue.created_at).value)

\* the body of the 'if response.status_code == 200' branch
IssuesSummary(issues) ==
    LET closed_issues == ClosedIssues(issues)
        total_time == sum([k \in DOMAIN closed_issues |-> TimeToClose(closed_issues[k])])
        avg_time_to_close == IF closed_issues # <<>>
                             THEN TrueDiv(total_time, Len(closed_issues))
                             ELSE Num(0)
    IN  IF \E k \in DOMAIN closed_issues :
              strptime(closed_issues[k].closed_at).exc # "none"
        THEN Raise("TypeError")
        ELSE Return([total_issues |-> Len(issues),
                     open_issues |-> Len(OpenIssues(issues)),
                     closed_issues |-> Len(closed_issues),
                     avg_time_to_close_days |-> avg_time_to_close])

_analyze_issues(status, issues) ==
    IF status = StatusOK THEN IssuesSummary(issues) ELSE Return(EmptyDict)

----------------------------------------------------------------------------
(* RepoHealthChecker._analyze_commits                                      *)

\* a faulty variant of DateRange: the + 1 is forgotten
DateRangeExclusive(commit_dates) == max(commit_dates) - min(commit_dates)

\* a faulty variant of DateRange: max and min are exchanged
DateRangeSwapped(commit_dates) == (min(commit_dates) - max(commit_dates)) + 1

\* line 95: (max(commit_dates) - min(commit_dates)).days + 1
DateRange(commit_dates) == (max(commit_dates) - min(commit_dates)) + 1

\* the body of the 'if response.status_code == 200' branch
CommitsSummary(commits) ==
    LET parsed == [k \in DOMAIN commits |-> strptime(commits[k].commit.author.date)]
        commit_dates == [k \in DOMAIN commits |-> date(parsed[k].value)]
        date_range == DateRange(commit_dates)
        commit_frequency == IF commit_dates # <<>>
                            THEN IF date_range > 0
                                 THEN TrueDiv(Len(commits), date_range)
                                 ELSE Num(0)
                            ELSE Num(0)
    IN  IF \E k \in DOMAIN commits : parsed[k].exc # "none"
        THEN Raise("TypeError")
        ELSE Return([total_commits |-> Len(commits),
                     commit_frequency_per_day |-> round2(commit_frequency)])

_analyze_commits(status, commits) ==
    IF status = StatusOK THEN CommitsSummary(commits) ELSE Return(EmptyDict)

----------------------------------------------------------------------------
(* RepoHealthChecker._get_repo_info                                        *)

\* the keys of the response body that _get_repo_info reads
RepoBodyKeys == {"name", "stargazers_count", "forks_count", "open_issues_count",
                 "created_at", "updated_at", "language", "has_wiki", "has_projects"}

\* the keys of the dict it returns
RepoInfoKeys == {"name", "stars", "forks", "open_issues", "created_at",
                 "last_update", "language", "has_wiki", "has_projects"}

\* a body of GET /repos/{owner}/{repo} (it holds more than is read)
RepoBody(name, stars) ==
    [id |-> 1, name |-> name, stargazers_count |-> stars, forks_count |-> 2,
     open_issues_count |-> 1, created_at |-> <<0, 0>>, updated_at |-> <<1, 43200>>,
     language |-> "Python", has_wiki |-> TRUE, has_projects |-> FALSE]

\* the bodies the collaborator may send for the repository called name
RepoBodies(name) == {RepoBody(name, stars) : stars \in {0, 7}}

\* the body of the 'if response.status_code == 200' branch
RepoInfo(data) ==
    IF ~(RepoBodyKeys \subseteq DOMAIN data)
    THEN Raise("KeyError")
    ELSE Return([name |-> data["name"],
                 stars |-> data["stargazers_count"],
                 forks |-> data["forks_count"],
                 open_issues |-> data["open_issues_count"],
                 created_at |-> data["created_at"],
                 last_update |-> data["updated_at"],
                 language |-> data["language"],
                 has_wiki |-> data["has_wiki"],
                 has_projects |-> data["has_projects"]])

\* a faulty variant of _get_repo_info: a non-success response raises
_get_repo_info_raising(status, data) ==
    IF status = StatusOK THEN RepoInfo(data) ELSE Raise("HTTPError")

_get_repo_info(status, data) ==
    IF status = StatusOK THEN RepoInfo(data) ELSE Return(EmptyDict)

----------------------------------------------------------------------------
(* RepoHealthChecker.generate_report                                       *)

\* f"{x:.1f}": x to one decimal place, as a number of tenths
format1(x) ==
    LET n == 10 * x[1]
        d == x[2]
        q == n \div d
        r == n - q * d
    IN  IF 2 * r < d THEN q
        ELSE IF 2 * r > d THEN q + 1
        ELSE IF q % 2 = 0 THEN q ELSE q + 1

\* the keys generate_report reads of each sub-result
ReportKeys ==
    [basic_info |-> {"name", "language", "stars", "forks"},
     issues_analysis |-> {"total_issues", "open_issues", "avg_time_to_close_days"},
     commit_analysis |-> {"total_commits", "commit_frequency_per_day"}]

\* a faulty variant of generate_report: a missing key is rendered as "N/A"
generate_report_defaults(analysis_data) ==
    Return(<< <<"Metric", "Value">> >> \o
           [k \in 1..9 |-> <<"N/A", "N/A">>])

generate_report(analysis_data) ==
    LET basic_info == analysis_data["basic_info"]
        issues == analysis_data["issues_analysis"]
        commit_data == analysis_data["commit_analysis"]
    IN  IF \E part \in DOMAIN ReportKeys :
              ~(ReportKeys[part] \subseteq DOMAIN analysis_data[part])
        THEN Raise("KeyError")
        ELSE Return(<< <<"Metric", "Value">>,
                       <<"Repository Name", basic_info["name"]>>,
                       <<"Primary Language", basic_info["language"]>>,
                       <<"Stars", basic_info["stars"]>>,
                       <<"Forks", basic_info["forks"]>>,
                       <<"Total Issues", issues["total_issues"]>>,
                       <<"Open Issues", issues["open_issues"]>>,
                       <<"Average Days to Close",
                         format1(issues["avg_time_to_close_days"])>>,
                       <<"Total Commits", commit_data["total_commits"]>>,
                       <<"Commits per Day", commit_data["commit_frequency_per_day"]>> >>)

----------------------------------------------------------------------------
(* The analyzers called on their own, on one collaborator response.        *)

NoResponse == [status |-> 0, body |-> <<>>]

Idle ==
    /\ exc = "none" /\ token = "" /\ owner = "" /\ repo = ""
    /\ calls = <<>> /\ repo_data = EmptyDict /\ issues_data = EmptyDict
    /\ commits_data = EmptyDict /\ analysis = EmptyDict /\ stdout = <<>>
    /\ file = NoFile

InitIssues ==
    /\ Idle
    /\ pc = "call"
    /\ response \in [status : Statuses,
                      body : Pages(IssueRecords(MaxIssueDay), MaxIssues)]

CallAnalyzeIssues ==
    /\ pc = "call"
    /\ LET r == _analyze_issues(response.status, response.body)
       IN  /\ exc' = r.exc
           /\ pc' = IF r.exc = "none" THEN "returned" ELSE "raised"
           /\ issues_data' = IF r.exc = "none" THEN r.value ELSE issues_data
    /\ UNCHANGED <<token, owner, repo, calls, repo_data, commits_data,
                   analysis, stdout, file, response>>

NextIssues == CallAnalyzeIssues

SpecIssues == InitIssues /\ [][NextIssues]_vars

InitCommits ==
    /\ Idle
    /\ pc = "call"
    /\ response \in [status : Statuses,
                      body : Pages(CommitRecords(MaxCommitDay), MaxCommits)]

CallAnalyzeCommits ==
    /\ pc = "call"
    /\ LET r == _analyze_commits(response.status, response.body)
       IN  /\ exc' = r.exc
           /\ pc' = IF r.exc = "none" THEN "returned" ELSE "raised"
           /\ commits_data' = IF r.exc = "none" THEN r.value ELSE commits_data
    /\ UNCHANGED <<token, owner, repo, calls, repo_data, issues_data,
                   analysis, stdout, file, response>>

NextCommits == CallAnalyzeCommits

SpecCommits == InitCommits /\ [][NextCommits]_vars

----------------------------------------------------------------------------
(* main(): one run of the program.                                         *)

Tokens == {"", "ghp_t"}
Owners == {"octocat"}
Repos == {"hello", "vitals"}
OldContent == FileOf(<<"previous report">>)
PreExisting == {NoFile, OldContent}

Init ==
    /\ pc = "getenv"
    /\ exc = "none"
    /\ token \in Tokens
    /\ owner = "" /\ repo = ""
    /\ calls = <<>>
    /\ repo_data = EmptyDict /\ issues_data = EmptyDict /\ commits_data = EmptyDict
    /\ analysis = EmptyDict
    /\ stdout = <<>>
    /\ file \in PreExisting
    /\ response = NoResponse

\* an outbound GET: its path, query parameters and Authorization header
Get(path, params) ==
    [url |-> <<"repos", owner, repo>> \o path, params |-> params,
     auth |-> <<"token", token>>]

\* a faulty variant of GetToken: the token is not checked
GetTokenUnchecked ==
    /\ pc = "getenv" /\ exc = "none"
    /\ pc' = "input_owner"
    /\ UNCHANGED <<exc, token, owner, repo, calls, repo_data, issues_data,
                   commits_data, analysis, stdout, file, response>>

\* github_token = os.getenv(...); raise ValueError if unset; RepoHealthChecker(token)
GetToken ==
    /\ pc = "getenv" /\ exc = "none"
    /\ IF token = ""
       THEN exc' = "ValueError" /\ pc' = pc
       ELSE exc' = exc /\ pc' = "input_owner"
    /\ UNCHANGED <<token, owner, repo, calls, repo_data, issues_data,
                   commits_data, analysis, stdout, file, response>>

InputOwner ==
    /\ pc = "input_owner" /\ exc = "none"
    /\ owner' \in Owners
    /\ pc' = "input_repo"
    /\ UNCHANGED <<exc, token, repo, calls, repo_data, issues_data,
                   commits_data, analysis, stdout, file, response>>

InputRepo ==
    /\ pc = "input_repo" /\ exc = "none"
    /\ repo' \in Repos
    /\ pc' = "print_analyzing"
    /\ UNCHANGED <<exc, token, owner, calls, repo_data, issues_data,
                   commits_data, analysis, stdout, file, response>>

PrintAnalyzing ==
    /\ pc = "print_analyzing" /\ exc = "none"
    /\ stdout' = Append(stdout, <<"Analyzing", owner, repo>>)
    /\ pc' = "repo_info"
    /\ UNCHANGED <<exc, token, owner, repo, calls, repo_data, issues_data,
                   commits_data, analysis, file, response>>

\* analyze_repository, line 20: repo_data = self._get_repo_info(owner, repo)
GetRepoInfo ==
    /\ pc = "repo_info" /\ exc = "none"
    /\ \E status \in Statuses, data \in RepoBodies(repo) :
         LET r == _get_repo_info(status, data)
         IN  /\ calls' = Append(calls, [get |-> Get(<<>>, EmptyDict), status |-> status])
             /\ exc' = r.exc
             /\ pc' = IF r.exc = "none" THEN "issues" ELSE pc
             /\ repo_data' = IF r.exc = "none" THEN r.value ELSE repo_data
    /\ UNCHANGED <<token, owner, repo, issues_data, commits_data, analysis,
                   stdout, file, response>>

\* analyze_repository, line 21: issues_data = self._analyze_issues(owner, repo)
AnalyzeIssues ==
    /\ pc = "issues" /\ exc = "none"
    /\ \E status \in Statuses, issues \in Pages(IssueRecords(MainMaxDay), MainMaxLen) :
         LET r == _analyze_issues(status, issues)
         IN  /\ calls' = Append(calls,
                     [get |-> Get(<<"issues">>, [state |-> "all", per_page |-> 100]),
                      status |-> status])
             /\ exc' = r.exc
             /\ pc' = IF r.exc = "none" THEN "commits" ELSE pc
             /\ issues_data' = IF r.exc = "none" THEN r.value ELSE issues_data
    /\ UNCHANGED <<token, owner, repo, repo_data, commits_data, analysis,
                   stdout, file, response>>

\* a faulty variant of AnalyzeCommits: a non-success response is retried once
AnalyzeCommitsRetrying ==
    /\ pc = "commits" /\ exc = "none"
    /\ \E status \in Statuses, commits \in Pages(CommitRecords(MainMaxDay), MainMaxLen) :
         LET r == _analyze_commits(status, commits)
             call == [get |-> Get(<<"commits">>, [per_page |-> 100]), status |-> status]
         IN  /\ calls' = IF status = StatusOK THEN Append(calls, call)
                         ELSE calls \o <<call, call>>
             /\ exc' = r.exc
             /\ pc' = IF r.exc = "none" THEN "return" ELSE pc
             /\ commits_data' = IF r.exc = "none" THEN r.value ELSE commits_data
    /\ UNCHANGED <<token, owner, repo, repo_data, issues_data, analysis,
                   stdout, file, response>>

\* analyze_repository, line 22: commits_data = self._analyze_commits(owner, repo)
AnalyzeCommits ==
    /\ pc = "commits" /\ exc = "none"
    /\ \E status \in Statuses, commits \in Pages(CommitRecords(MainMaxDay), MainMaxLen) :
         LET r == _analyze_commits(status, commits)
         IN  /\ calls' = Append(calls,
                     [get |-> Get(<<"commits">>, [per_page |-> 100]),
                      status |-> status])
             /\ exc' = r.exc
             /\ pc' = IF r.exc = "none" THEN "return" ELSE pc
             /\ commits_data' = IF r.exc = "none" THEN r.value ELSE commits_data
    /\ UNCHANGED <<token, owner, repo, repo_data, issues_data, analysis,
                   stdout, file, response>>

\* analyze_repository, lines 25-30: the HealthReport it returns to main
ReturnAnalysis ==
    /\ pc = "return" /\ exc = "none"
    /\ analysis' = [basic_info |-> repo_data,
                    issues_analysis |-> issues_data,
                    commit_analysis |-> commits_data]
    /\ pc' = "print_header"
    /\ UNCHANGED <<exc, token, owner, repo, calls, repo_data, issues_data,
                   commits_data, stdout, file, response>>

\* lines 170-171
PrintHeader ==
    /\ pc = "print_header" /\ exc = "none"
    /\ stdout' = stdout \o <<"Repository Health Report", "=====">>
    /\ pc' = "render"
    /\ UNCHANGED <<exc, token, owner, repo, calls, repo_data, issues_data,
                   commits_data, analysis, file, response>>

\* a faulty variant of PrintReport: a failed rendering is caught and the run goes on
PrintReportLenient ==
    /\ pc = "render" /\ exc = "none"
    /\ LET r == generate_report(analysis)
       IN  stdout' = IF r.exc = "none" THEN Append(stdout, r.value) ELSE stdout
    /\ pc' = "open"
    /\ UNCHANGED <<exc, token, owner, repo, calls, repo_data, issues_data,
                   commits_data, analysis, file, response>>

\* line 172: print(checker.generate_report(analysis))
PrintReport ==
    /\ pc = "render" /\ exc = "none"
    /\ LET r == generate_report(analysis)
       IN  /\ exc' = r.exc
           /\ pc' = IF r.exc = "none" THEN "open" ELSE pc
           /\ stdout' = IF r.exc = "none" THEN Append(stdout, r.value) ELSE stdout
    /\ UNCHANGED <<token, owner, repo, calls, repo_data, issues_data,
                   commits_data, analysis, file, response>>

\* line 175: open('repo_health_report.json', 'w') creates or truncates the file
OpenFile ==
    /\ pc = "open" /\ exc = "none"
    /\ file' = FileOf(<<>>)
    /\ pc' = "dump"
    /\ UNCHANGED <<exc, token, owner, repo, calls, repo_data, issues_data,
                   commits_data, analysis, stdout, response>>

\* json.dump(obj, f, indent=2): the text written, as the value it encodes
json_dump(obj) == <<"indent=2", obj>>

\* line 176 and the end of the with block
DumpReport ==
    /\ pc = "dump" /\ exc = "none"
    /\ file' = FileOf(json_dump(analysis))
    /\ pc' = "print_saved"
    /\ UNCHANGED <<exc, token, owner, repo, calls, repo_data, issues_data,
                   commits_data, analysis, stdout, response>>

\* line 177
PrintSaved ==
    /\ pc = "print_saved" /\ exc = "none"
    /\ stdout' = Append(stdout, "Detailed report saved to 'repo_health_report.json'")
    /\ pc' = "done"
    /\ UNCHANGED <<exc, token, owner, repo, calls, repo_data, issues_data,
                   commits_data, analysis, file, response>>

Next ==
    \/ GetToken
    \/ InputOwner
    \/ InputRepo
    \/ PrintAnalyzing
    \/ GetRepoInfo
    \/ AnalyzeIssues
    \/ AnalyzeCommits
    \/ ReturnAnalysis
    \/ PrintHeader
    \/ PrintReport
    \/ OpenFile
    \/ DumpReport
    \/ PrintSaved

Spec == Init /\ [][Next]_vars

----------------------------------------------------------------------------
(* Properties of _analyze_issues, checked under SpecIssues.                *)

\* _analyze_issues returned an IssueSummary for a successfully fetched page
IssuesSummarised ==
    pc = "returned" /\ response.status = StatusOK /\ issues_data # EmptyDict

\* the positions of the page's records in the given state
InState(page, state) == {k \in DOMAIN page : page[k].state = state}

\* closedAt - createdAt of a record, in seconds, read off the wire timestamps
Elapsed(issue) ==
    (issue.closed_at[1] - issue.created_at[1]) * SecondsPerDay
        + (issue.closed_at[2] - issue.created_at[2])

\* the whole days in a number of seconds, rounded toward minus infinity
WholeDaysFloor(seconds) ==
    CHOOSE n \in -(MaxIssueDay + 2) .. (MaxIssueDay + 2) :
        n * SecondsPerDay <= seconds /\ seconds < (n + 1) * SecondsPerDay

\* the whole days in a number of seconds, truncated (rounded toward zero)
WholeDaysTruncated(seconds) ==
    IF seconds >= 0 THEN WholeDaysFloor(seconds) ELSE -WholeDaysFloor(-seconds)

\* the whole days to close of each closed record of the page, either way
FlooredDays(page) ==
    [k \in InState(page, "closed") |-> WholeDaysFloor(Elapsed(page[k]))]
TruncatedDays(page) ==
    [k \in InState(page, "closed") |-> WholeDaysTruncated(Elapsed(page[k]))]

RECURSIVE SumOver(_, _)
SumOver(f, set) ==
    IF set = {} THEN 0
    ELSE LET k == CHOOSE x \in set : TRUE
         IN  f[k] + SumOver(f, set \ {k})

\* avg is the arithmetic mean of daysOf[k] over the closed records k, and 0
\* when there is no closed record
IsMean(avg, daysOf) ==
    IF DOMAIN daysOf = {} THEN avg = <<0, 1>>
    ELSE /\ avg[2] > 0
         /\ avg[1] * Cardinality(DOMAIN daysOf) = avg[2] * SumOver(daysOf, DOMAIN daysOf)

\* C1: for every successfully fetched issue page, the IssueSummary has
\* total_issues = open_issues + closed_issues, and they count the page's
\* records, its open records and its closed records.
C1_TotalIsOpenPlusClosed ==
    IssuesSummarised =>
        /\ issues_data.total_issues = issues_data.open_issues + issues_data.closed_issues
        /\ issues_data.total_issues = Len(response.body)
        /\ issues_data.open_issues = Cardinality(InState(response.body, "open"))
        /\ issues_data.closed_issues = Cardinality(InState(response.body, "closed"))

C1_Witness ==
    /\ IssuesSummarised
    /\ issues_data.open_issues = 1
    /\ issues_data.closed_issues = 1
    /\ issues_data.total_issues = 2

\* the page of the scenario: one issue closed 2024-01-01 -> 2024-01-03, one open issue
ScenarioIssues ==
    << [state |-> "closed", created_at |-> <<0, 0>>, closed_at |-> <<2, 0>>],
       [state |-> "open", created_at |-> <<2, 0>>, closed_at |-> None] >>

\* C2 as stated: for every successfully fetched issue page,
\* avg_time_to_close_days is the mean over the closed records of
\* (closedAt - createdAt) in whole days TRUNCATED per record, and 0 when no
\* record is closed.
C2_MeanOfTruncatedDays ==
    IssuesSummarised =>
        IsMean(issues_data.avg_time_to_close_days, TruncatedDays(response.body))

\* C2 as amended: for every successfully fetched issue page that yields an
\* IssueSummary, avg_time_to_close_days is the mean over the closed records of
\* (closedAt - createdAt) in whole days rounded toward minus infinity per
\* record (which is truncation whenever closedAt >= createdAt), and exactly 0
\* when no record is closed; the scenario page gives total 2, open 1,
\* closed 1, average 2.0.
C2_MeanOfFlooredDays ==
    IssuesSummarised =>
        /\ IsMean(issues_data.avg_time_to_close_days, FlooredDays(response.body))
        /\ (\A k \in InState(response.body, "closed") : Elapsed(response.body[k]) >= 0)
              => IsMean(issues_data.avg_time_to_close_days, TruncatedDays(response.body))
        /\ response.body = ScenarioIssues
              => issues_data = [total_issues |-> 2, open_issues |-> 1,
                                closed_issues |-> 1,
                                avg_time_to_close_days |-> <<2, 1>>]

\* an issue closed 12 hours before it was created: -1 whole day, not 0
C2_Witness ==
    /\ IssuesSummarised
    /\ response.body = << [state |-> "closed", created_at |-> <<1, 0>>,
                           closed_at |-> <<0, 43200>>] >>
    /\ issues_data.avg_time_to_close_days = <<-1, 1>>

\* C9 as stated: every non-empty IssueSummary has total_issues >= 0,
\* open_issues >= 0, closed_issues >= 0 and avg_time_to_close_days >= 0,
\* whatever the timestamps of the closed records are.
C9_SummaryNonNegative ==
    IssuesSummarised =>
        /\ issues_data.total_issues >= 0
        /\ issues_data.open_issues >= 0
        /\ issues_data.closed_issues >= 0
        /\ issues_data.avg_time_to_close_days[1] >= 0

\* C9 as amended: every non-empty IssueSummary has total_issues >= 0,
\* open_issues >= 0 and closed_issues >= 0, and avg_time_to_close_days >= 0
\* provided no closed record of the page was closed before it was created.
C9_NonNegativeForOrderedTimestamps ==
    IssuesSummarised =>
        /\ issues_data.total_issues >= 0
        /\ issues_data.open_issues >= 0
        /\ issues_data.closed_issues >= 0
        /\ issues_data.avg_time_to_close_days[2] > 0
        /\ (\A k \in InState(response.body, "closed") : Elapsed(response.body[k]) >= 0)
              => issues_data.avg_time_to_close_days[1] >= 0

C9_Witness ==
    /\ IssuesSummarised
    /\ issues_data.closed_issues = 2
    /\ \A k \in InState(response.body, "closed") : Elapsed(response.body[k]) > 0
    /\ issues_data.avg_time_to_close_days[1] > 0

----------------------------------------------------------------------------
(* Properties of _analyze_commits, checked under SpecCommits.              *)

\* _analyze_commits returned a CommitSummary for a successfully fetched page
CommitsSummarised ==
    pc = "returned" /\ response.status = StatusOK /\ commits_data # EmptyDict

\* the calendar days of the page's author dates, the time of day discarded
AuthorDays(page) == {page[k].commit.author.date[1] : k \in DOMAIN page}

\* (max author date - min author date, in days) + 1
SpanDays(page) ==
    LET last == CHOOSE x \in AuthorDays(page) : \A y \in AuthorDays(page) : y <= x
        first == CHOOSE x \in AuthorDays(page) : \A y \in AuthorDays(page) : x <= y
    IN  (last - first) + 1

\* x has at most 2 decimal places and is n / span rounded to them:
\* x = k / 100 with |100 * n / span - k| <= 1/2
IsRounded2(x, n, span) ==
    /\ x[2] > 0
    /\ 100 % x[2] = 0
    /\ LET k == x[1] * (100 \div x[2])
           diff == 100 * n - k * span
       IN  2 * diff <= span /\ -2 * diff <= span

\* the page of the scenario: commits on 2024-01-01, 2024-01-01 and 2024-01-03
ScenarioCommits ==
    << [commit |-> [author |-> [date |-> <<0, 43200>>]]],
       [commit |-> [author |-> [date |-> <<0, 0>>]]],
       [commit |-> [author |-> [date |-> <<2, 0>>]]] >>

\* C3: for every successfully fetched commit page, total_commits is the
\* number of fetched commits and commit_frequency_per_day is total_commits /
\* ((max author date - min author date, in days, time of day discarded) + 1)
\* rounded to 2 decimal places, and 0 when the list is empty; the scenario
\* dates give total 3 and frequency 1.0.
C3_FrequencyIsCommitsPerSpanDay ==
    CommitsSummarised =>
        /\ commits_data.total_commits = Len(response.body)
        /\ response.body = <<>> => commits_data.commit_frequency_per_day = <<0, 1>>
        /\ response.body # <<>> =>
              IsRounded2(commits_data.commit_frequency_per_day,
                         Len(response.body), SpanDays(response.body))
        /\ response.body = ScenarioCommits =>
              /\ SpanDays(response.body) = 3
              /\ commits_data = [total_commits |-> 3,
                                  commit_frequency_per_day |-> <<1, 1>>]

C3_Witness ==
    /\ CommitsSummarised
    /\ response.body = ScenarioCommits
    /\ commits_data.commit_frequency_per_day = <<1, 1>>

\* the commit dates _analyze_commits derives from a well-formed page
CommitDates(page) ==
    [k \in DOMAIN page |-> date(strptime(page[k].commit.author.date).value)]

\* C10: for every non-empty fetched commit list (one distinct author date
\* included) the span (max date - min date) + 1 that _analyze_commits
\* computes is at least 1, so it never divides by zero, its 'span is zero'
\* fallback is never taken and commit_frequency_per_day is finite: it is the
\* quotient by the span, rounded; for an empty list no span is computed and
\* the frequency is 0.
C10_SpanAtLeastOne ==
    CommitsSummarised =>
        IF response.body = <<>>
        THEN commits_data.commit_frequency_per_day = <<0, 1>>
        ELSE /\ DateRange(CommitDates(response.body)) >= 1
             /\ commits_data.commit_frequency_per_day[2] > 0
             /\ commits_data.commit_frequency_per_day =
                    round2(TrueDiv(Len(response.body),
                                   DateRange(CommitDates(response.body))))
             /\ Cardinality(AuthorDays(response.body)) = 1 =>
                    commits_data.commit_frequency_per_day = <<Len(response.body), 1>>

\* two commits on one day: span 1, frequency 2.0
C10_Witness ==
    /\ CommitsSummarised
    /\ Len(response.body) = 2
    /\ Cardinality(AuthorDays(response.body)) = 1
    /\ commits_data.commit_frequency_per_day = <<2, 1>>

----------------------------------------------------------------------------
(* Properties of a run of main, checked under Spec.                        *)

\* the positions of the three fetches, and what follows a printed table
FetchPc == <<"repo_info", "issues", "commits">>
PastRender == {"open", "dump", "print_saved", "done"}

\* the three sub-results and the keys of each when it is fully populated
SubResults == <<repo_data, issues_data, commits_data>>
FullKeys ==
    << RepoInfoKeys,
       {"total_issues", "open_issues", "closed_issues", "avg_time_to_close_days"},
       {"total_commits", "commit_frequency_per_day"} >>

StatusOf(i) == calls[i].status

\* the i-th fetch was made and raised / was made and returned
FetchRaised(i) == Len(calls) = i /\ pc = FetchPc[i] /\ exc # "none"
FetchReturned(i) == Len(calls) >= i /\ ~FetchRaised(i)

SomeFetchFailed == \E i \in 1..Len(calls) : StatusOf(i) # StatusOK

\* the run is over: it reached the end of main or died of an exception
RunEnded == pc = "done" \/ exc # "none"

C4_SubResults ==
    \A i \in 1..3 :
        /\ DOMAIN SubResults[i] \in {{}, FullKeys[i]}
        /\ Len(calls) < i => SubResults[i] = EmptyDict
        /\ (Len(calls) >= i /\ StatusOf(i) # StatusOK) =>
              FetchReturned(i) /\ SubResults[i] = EmptyDict
        /\ (FetchReturned(i) /\ StatusOf(i) = StatusOK) =>
              DOMAIN SubResults[i] = FullKeys[i]

C4_OwnFetchOnly ==
    /\ repo_data' # repo_data => Len(calls) = 0 /\ Len(calls') = 1
    /\ issues_data' # issues_data => Len(calls) = 1 /\ Len(calls') = 2
    /\ commits_data' # commits_data => Len(calls) = 2 /\ Len(calls') = 3

\* C4: each of the three fetch operations returns an empty result, without
\* raising, when its own response is non-success, and a result with all of
\* its fields when the response is a success and well-formed; a sub-result is
\* never partially populated, and a sub-result changes only in the step of
\* its own fetch, whatever the other two fetches answer.
C4_EmptyOrFull == []C4_SubResults /\ [][C4_OwnFetchOnly]_vars

\* the issues fetch failed between two successful fetches
C4_Witness ==
    /\ Len(calls) = 3 /\ pc = "return"
    /\ StatusOf(1) = StatusOK /\ StatusOf(2) # StatusOK /\ StatusOf(3) = StatusOK
    /\ DOMAIN repo_data = RepoInfoKeys
    /\ issues_data = EmptyDict
    /\ DOMAIN commits_data = FullKeys[3]

\* the table was fully rendered and printed (after the banner's three lines)
TablePrinted ==
    /\ Len(stdout) >= 4
    /\ Len(stdout[4]) = 10
    /\ stdout[4][1] = <<"Metric", "Value">>

C5_NoFileOnCrash ==
    /\ exc # "none" => file \in PreExisting /\ pc \notin PastRender
    /\ file \notin PreExisting =>
          /\ exc = "none"
          /\ Len(calls) = 3
          /\ \A i \in 1..3 : StatusOf(i) = StatusOK
          /\ TablePrinted
          /\ pc \in PastRender \ {"open"}

C5_FileStep ==
    file' # file => exc = "none" /\ exc' = "none" /\ pc \in {"open", "dump"}

\* C5: in every run of main, when a malformed-input crash occurs (a closed
\* issue without closedAt during issue analysis, a missing key met by
\* generate_report) the run ends without repo_health_report.json having been
\* opened or written and a pre-existing file is unchanged; the file is
\* written only in runs where all three fetches succeeded and the table was
\* fully rendered and printed first.
C5_CrashWritesNoFile == []C5_NoFileOnCrash /\ [][C5_FileStep]_vars

\* generate_report met a missing key: the previous report is still there
C5_Witness ==
    /\ pc = "render" /\ exc = "KeyError"
    /\ file = OldContent
    /\ ~TablePrinted

\* some sub-result of the HealthReport is empty / all three are fully populated
SomeSubResultEmpty ==
    \E part \in DOMAIN analysis : analysis[part] = EmptyDict
AllSubResultsFull ==
    /\ DOMAIN analysis["basic_info"] = FullKeys[1]
    /\ DOMAIN analysis["issues_analysis"] = FullKeys[2]
    /\ DOMAIN analysis["commit_analysis"] = FullKeys[3]

\* generate_report is about to be called on the HealthReport
AtRender == pc = "render" /\ exc = "none"

\* generate_report raises when a sub-result is empty, renders when all are full
C6_RenderFailsIffEmpty ==
    /\ AtRender =>
          /\ SomeSubResultEmpty => generate_report(analysis).exc = "KeyError"
          /\ AllSubResultsFull =>
                /\ generate_report(analysis).exc = "none"
                /\ Len(generate_report(analysis).value) = 10
          /\ SomeSubResultEmpty \/ AllSubResultsFull
    /\ (pc = "render" /\ exc # "none") => exc = "KeyError" /\ SomeSubResultEmpty
    /\ pc \in PastRender => AllSubResultsFull /\ TablePrinted

\* C6 as stated: generate_report raises whenever at least one of the three
\* sub-results is empty and succeeds whenever all three are fully populated;
\* so in main a non-success status on any single fetch always ends the run
\* at the render step.
C6_FailedFetchEndsAtRender ==
    /\ C6_RenderFailsIffEmpty
    /\ (RunEnded /\ SomeFetchFailed) => pc = "render" /\ exc = "KeyError"

\* C6 as amended: generate_report raises whenever at least one of the three
\* sub-results is empty and succeeds whenever all three are fully populated;
\* so in main a run with a non-success status on any fetch never gets past
\* the render step: it ends there with the KeyError, unless issue analysis
\* has already raised on a closed record without closedAt.
C6_FailedFetchEndsByRender ==
    /\ C6_RenderFailsIffEmpty
    /\ SomeFetchFailed => pc \notin PastRender
    /\ (RunEnded /\ SomeFetchFailed) =>
          \/ pc = "render" /\ exc = "KeyError"
          \/ FetchRaised(2) /\ StatusOf(2) = StatusOK /\ exc = "TypeError"

\* only the commits fetch failed: the run died in generate_report
C6_Witness ==
    /\ pc = "render" /\ exc = "KeyError"
    /\ Len(calls) = 3
    /\ StatusOf(1) = StatusOK /\ StatusOf(2) = StatusOK /\ StatusOf(3) # StatusOK
    /\ analysis["commit_analysis"] = EmptyDict
    /\ DOMAIN analysis["basic_info"] = FullKeys[1]

\* the GETs of one analysis, in order: repository info, issues, commits
ExpectedGets ==
    << [url |-> <<"repos", owner, repo>>, params |-> EmptyDict,
        auth |-> <<"token", token>>],
       [url |-> <<"repos", owner, repo, "issues">>,
        params |-> [state |-> "all", per_page |-> 100], auth |-> <<"token", token>>],
       [url |-> <<"repos", owner, repo, "commits">>,
        params |-> [per_page |-> 100], auth |-> <<"token", token>>] >>

GetsSoFar == [i \in 1..Len(calls) |-> calls[i].get]

\* analyze_repository is over: it returned the HealthReport, or an analyzer raised
AnalysisReturned == pc \in {"print_header", "render"} \cup PastRender
AnalysisRaised == \E i \in 1..3 : FetchRaised(i)

HealthReportKeys == {"basic_info", "issues_analysis", "commit_analysis"}

\* C7 as stated: analyze_repository issues exactly one GET per endpoint, in
\* the order repository info, issues, commits, whatever the statuses of the
\* earlier calls, and then returns a HealthReport with the three keys.
C7_ThreeGetsThenReport ==
    (AnalysisReturned \/ AnalysisRaised) =>
        /\ GetsSoFar = ExpectedGets
        /\ DOMAIN analysis = HealthReportKeys

\* C7 as amended: analyze_repository issues at most one GET per endpoint, in
\* the order repository info, issues, commits; no non-success status stops
\* or repeats a call; when it returns, all three GETs were issued, whatever
\* their statuses, and the HealthReport has the three keys, holding the
\* three sub-results; when _analyze_issues raises on a closed record without
\* closedAt, the commits GET is not issued and no HealthReport is returned.
C7_GetsInOrderThenReport ==
    /\ Len(calls) <= 3
    /\ GetsSoFar = SubSeq(ExpectedGets, 1, Len(calls))
    /\ \A i \in 1..3 : FetchRaised(i) =>
          i = 2 /\ StatusOf(i) = StatusOK /\ exc = "TypeError"
    /\ AnalysisReturned =>
          /\ Len(calls) = 3
          /\ DOMAIN analysis = HealthReportKeys
          /\ analysis = [basic_info |-> repo_data, issues_analysis |-> issues_data,
                          commit_analysis |-> commits_data]
    /\ ~AnalysisReturned => analysis = EmptyDict

\* every fetch failed, and the report was still assembled from three GETs
C7_Witness ==
    /\ pc = "print_header"
    /\ Len(calls) = 3
    /\ \A i \in 1..3 : StatusOf(i) # StatusOK
    /\ DOMAIN analysis = HealthReportKeys

C8_NothingDone ==
    token = "" =>
        /\ pc = "getenv"
        /\ exc \in {"none", "ValueError"}
        /\ owner = "" /\ repo = ""
        /\ calls = <<>>
        /\ stdout = <<>>
        /\ analysis = EmptyDict
        /\ file \in PreExisting

C8_FatalStep ==
    token = "" => exc' = "ValueError" /\ UNCHANGED <<owner, repo, calls, stdout, file>>

\* C8: when the credential is absent from the environment, main halts with
\* a fatal error before any work begins: no prompt is read, no outbound call
\* is made, nothing is printed and no report file is written.
C8_NoTokenHalts == []C8_NothingDone /\ [][C8_FatalStep]_vars

C8_Witness ==
    /\ token = "" /\ exc = "ValueError"
    /\ calls = <<>> /\ stdout = <<>> /\ owner = ""

====
